---- MODULE Spec2Model ----
(***************************************************************************)
(* A model of backend/src/lib/whisper_helper.py: a command-line script     *)
(* that reads one path from argv, loads a faster-whisper model, transcribes*)
(* the file, joins the segment texts with single spaces and prints the     *)
(* result as one JSON object.                                              *)
(*                                                                         *)
(* Every run of the script is one process.  The variables are functions    *)
(* from process ids to the state of that process, so that one run (Spec)   *)
(* and two independent runs side by side (PairSpec) use the same actions.  *)
(* Strings the script computes are sequences of character codes.           *)
(***************************************************************************)
EXTENDS Integers, Sequences, FiniteSets, TLC

VARIABLES
    argv,     \* sys.argv of the process: <<script, arg1, ...>>
    pc,       \* position of the process in the script
    p,        \* line 6: p
    model,    \* line 7: the arguments WhisperModel was constructed with
    call,     \* line 8: the arguments transcribe was called with
    info,     \* line 8: the metadata record returned beside the segments
    texts,    \* line 9: the list [s.text for s in segments] built so far
    text,     \* line 9: text
    stdout,   \* the characters written to standard output
    err,      \* the uncaught exception that ended the process, if any
    log       \* history: the steps the process has attempted, in order

vars == <<argv, pc, p, model, call, info, texts, text, stdout, err, log>>

----------------------------------------------------------------------------
(* Bounds of the model.                                                    *)

MaxSegs == 2
MaxTextLen == 1
MaxExtraArgs == 1

(* beam_size=5 on line 8.                                                  *)
BeamSize == 5

----------------------------------------------------------------------------
(* Values.                                                                 *)

Script == "whisper_helper.py"
Unbound == "<unbound>"
NoError == "<none>"

NoModel == [model_size |-> Unbound, device |-> Unbound, compute_type |-> Unbound]
NoCall == [audio |-> Unbound, beam_size |-> 0]

(* Character codes: a, space, double quote, newline, backslash.            *)
Chars == {97, 32, 34, 10, 92}

(* The file system the runs see: which paths name a readable audio file.   *)
ReadablePaths == {"a.mp3", "b.wav"}
FileReadable(path) == path \in ReadablePaths

Range(seq) == {seq[i] : i \in DOMAIN seq}

Count(seq, e) == Cardinality({i \in DOMAIN seq : seq[i] = e})

SeqsUpTo(S, n) == UNION {[1..k -> S] : k \in 0..n}

(* All argument vectors: the script name, then nothing, or a path followed *)
(* by up to n further arguments.                                           *)
ArgvSet(paths, extras, n) ==
    {<<Script>>} \cup
    {<<Script, path>> \o x : path \in paths, x \in SeqsUpTo(extras, n)}

(* A segment object of the library: the script reads only its text.        *)
SegmentSet(txts, starts) == [text : txts, start : starts]

(* The environment of the single-run specification.                        *)
SpecEnv ==
    [argv     |-> ArgvSet({"a.mp3", "missing.mp3"}, {"--gpu"}, MaxExtraArgs),
     infos    |-> {"en"},
     segments |-> SegmentSet(SeqsUpTo(Chars, MaxTextLen), {0, 1})]

(* The environment of the two-run specification: fewer texts, two readable *)
(* paths and two metadata records.                                         *)
PairEnv ==
    [argv     |-> ArgvSet({"a.mp3", "b.wav"}, {"--gpu"}, MaxExtraArgs),
     infos    |-> {"en", "fr"},
     segments |-> SegmentSet({<<97>>, <<34, 10>>}, {0, 1})]

----------------------------------------------------------------------------
(* " ".join(list)                                                          *)

(* A variant that leaves out empty texts.                                  *)
RECURSIVE JoinSkipEmpty(_, _)
JoinSkipEmpty(sep, list) ==
    LET l == SelectSeq(list, LAMBDA x : x # <<>>)
    IN  IF l = <<>> THEN <<>>
        ELSE IF Len(l) = 1 THEN l[1]
        ELSE l[1] \o sep \o JoinSkipEmpty(sep, Tail(l))

RECURSIVE Join(_, _)
Join(sep, list) ==
    IF list = <<>> THEN <<>>
    ELSE IF Len(list) = 1 THEN list[1]
    ELSE list[1] \o sep \o Join(sep, Tail(list))

----------------------------------------------------------------------------
(* json.dumps({"transcript": text}) with the default ensure_ascii=True and *)
(* the default separators.                                                 *)

HexDigit(d) == IF d < 10 THEN 48 + d ELSE 87 + d

Hex4(c) ==
    <<HexDigit((c \div 4096) % 16), HexDigit((c \div 256) % 16),
      HexDigit((c \div 16) % 16), HexDigit(c % 16)>>

(* A variant that escapes quotes and control characters but not the       *)
(* backslash itself.                                                       *)
EscapeCharNoBackslash(c) ==
    CASE c = 34 -> <<92, 34>>
      [] c = 10 -> <<92, 110>>
      [] c = 13 -> <<92, 114>>
      [] c = 9  -> <<92, 116>>
      [] c = 8  -> <<92, 98>>
      [] c = 12 -> <<92, 102>>
      [] c \notin {8, 9, 10, 12, 13, 34} /\ (c < 32 \/ c > 126) ->
            <<92, 117>> \o Hex4(c)
      [] OTHER -> <<c>>

EscapeChar(c) ==
    CASE c = 34 -> <<92, 34>>
      [] c = 92 -> <<92, 92>>
      [] c = 10 -> <<92, 110>>
      [] c = 13 -> <<92, 114>>
      [] c = 9  -> <<92, 116>>
      [] c = 8  -> <<92, 98>>
      [] c = 12 -> <<92, 102>>
      [] c \notin {8, 9, 10, 12, 13, 34, 92} /\ (c < 32 \/ c > 126) ->
            <<92, 117>> \o Hex4(c)
      [] OTHER -> <<c>>

RECURSIVE EscapeAll(_)
EscapeAll(s) == IF s = <<>> THEN <<>> ELSE EscapeChar(Head(s)) \o EscapeAll(Tail(s))

EncodeString(s) == <<34>> \o EscapeAll(s) \o <<34>>

(* The characters of the key: transcript                                   *)
TranscriptKey == <<116, 114, 97, 110, 115, 99, 114, 105, 112, 116>>

JsonDumps(t) ==
    <<123>> \o EncodeString(TranscriptKey) \o <<58, 32>> \o EncodeString(t) \o <<125>>

----------------------------------------------------------------------------
(* The reader's side: a JSON text holding one object whose members have    *)
(* string values (RFC 8259), as a consumer of the printed line parses it.  *)

Failed(i) == [ok |-> FALSE, val |-> <<>>, next |-> i]

IsHex(c) == c \in 48..57 \/ c \in 97..102 \/ c \in 65..70

HexVal(c) == IF c \in 48..57 THEN c - 48 ELSE IF c \in 97..102 THEN c - 87 ELSE c - 55

Unescape(c) ==
    CASE c = 34 -> 34
      [] c = 92 -> 92
      [] c = 47 -> 47
      [] c = 110 -> 10
      [] c = 114 -> 13
      [] c = 116 -> 9
      [] c = 98 -> 8
      [] c = 102 -> 12

RECURSIVE ScanString(_, _, _)
ScanString(s, i, acc) ==
    IF i > Len(s) THEN Failed(i)
    ELSE IF s[i] = 34 THEN [ok |-> TRUE, val |-> acc, next |-> i + 1]
    ELSE IF s[i] < 32 THEN Failed(i)
    ELSE IF s[i] = 92 THEN
        IF i + 1 > Len(s) THEN Failed(i)
        ELSE IF s[i + 1] = 117 THEN
            IF i + 5 <= Len(s) /\ \A k \in 2..5 : IsHex(s[i + k])
            THEN ScanString(s, i + 6,
                     Append(acc, 4096 * HexVal(s[i + 2]) + 256 * HexVal(s[i + 3])
                                 + 16 * HexVal(s[i + 4]) + HexVal(s[i + 5])))
            ELSE Failed(i)
        ELSE IF s[i + 1] \in {34, 92, 47, 110, 114, 116, 98, 102}
            THEN ScanString(s, i + 2, Append(acc, Unescape(s[i + 1])))
        ELSE Failed(i)
    ELSE ScanString(s, i + 1, Append(acc, s[i]))

ReadString(s, i) ==
    IF i <= Len(s) /\ s[i] = 34 THEN ScanString(s, i + 1, <<>>) ELSE Failed(i)

RECURSIVE SkipWs(_, _)
SkipWs(s, i) ==
    IF i <= Len(s) /\ s[i] \in {32, 9, 10, 13} THEN SkipWs(s, i + 1) ELSE i

At(s, i, c) == i <= Len(s) /\ s[i] = c

RECURSIVE ReadMembers(_, _, _)
ReadMembers(s, i, acc) ==
    LET k == ReadString(s, i)
        colon == SkipWs(s, k.next)
        v == ReadString(s, SkipWs(s, colon + 1))
        after == SkipWs(s, v.next)
        members == Append(acc, [key |-> k.val, value |-> v.val])
    IN  IF ~k.ok \/ ~At(s, colon, 58) \/ ~v.ok THEN Failed(i)
        ELSE IF At(s, after, 125) THEN [ok |-> TRUE, val |-> members, next |-> after + 1]
        ELSE IF At(s, after, 44) THEN ReadMembers(s, SkipWs(s, after + 1), members)
        ELSE Failed(after)

(* [ok, val]: whether s is such a JSON text, and its members in order.     *)
JsonLoads(s) ==
    LET open == SkipWs(s, 1)
        first == SkipWs(s, open + 1)
        r == IF ~At(s, open, 123) THEN Failed(open)
             ELSE IF At(s, first, 125) THEN [ok |-> TRUE, val |-> <<>>, next |-> first + 1]
             ELSE ReadMembers(s, first, <<>>)
    IN  IF r.ok /\ SkipWs(s, r.next) = Len(s) + 1
        THEN [ok |-> TRUE, val |-> r.val]
        ELSE [ok |-> FALSE, val |-> <<>>]

----------------------------------------------------------------------------
(* The script, line by line.  r is the process.                            *)

Logged(r, step) == log' = [log EXCEPT ![r] = Append(@, step)]

Raise(r, e) ==
    /\ pc' = [pc EXCEPT ![r] = "failed"]
    /\ err' = [err EXCEPT ![r] = e]

(* Line 6: p = sys.argv[1]                                                 *)
ReadArg(r) ==
    /\ pc[r] = "start"
    /\ Len(argv[r]) >= 2
    /\ p' = [p EXCEPT ![r] = argv[r][2]]
    /\ pc' = [pc EXCEPT ![r] = "model"]
    /\ Logged(r, "argv")
    /\ UNCHANGED <<argv, model, call, info, texts, text, stdout, err>>

(* A variant of the missing-argument case that falls back to a default    *)
(* path instead of raising.                                                *)
ArgMissingDefaults(r) ==
    /\ pc[r] = "start"
    /\ Len(argv[r]) < 2
    /\ p' = [p EXCEPT ![r] = "a.mp3"]
    /\ pc' = [pc EXCEPT ![r] = "model"]
    /\ Logged(r, "argv")
    /\ UNCHANGED <<argv, model, call, info, texts, text, stdout, err>>

(* Line 6 with no argument: sys.argv[1] raises IndexError.                 *)
ArgMissing(r) ==
    /\ pc[r] = "start"
    /\ Len(argv[r]) < 2
    /\ Raise(r, "IndexError")
    /\ Logged(r, "argv")
    /\ UNCHANGED <<argv, p, model, call, info, texts, text, stdout>>

(* A variant that picks the device from a further argument.               *)
LoadModelDeviceFromArgs(r) ==
    /\ pc[r] = "model"
    /\ model' = [model EXCEPT ![r] =
                    [model_size |-> "small",
                     device |-> IF Len(argv[r]) >= 3 THEN "cuda" ELSE "cpu",
                     compute_type |-> "int8"]]
    /\ pc' = [pc EXCEPT ![r] = "transcribe"]
    /\ Logged(r, "model")
    /\ UNCHANGED <<argv, p, call, info, texts, text, stdout, err>>

(* Line 7: model = WhisperModel("small", device="cpu", compute_type="int8")*)
LoadModel(r) ==
    /\ pc[r] = "model"
    /\ model' = [model EXCEPT ![r] =
                    [model_size |-> "small", device |-> "cpu", compute_type |-> "int8"]]
    /\ pc' = [pc EXCEPT ![r] = "transcribe"]
    /\ Logged(r, "model")
    /\ UNCHANGED <<argv, p, call, info, texts, text, stdout, err>>

(* A variant of the failing constructor that is tried a second time       *)
(* before the error is let through.                                        *)
LoadModelRetries(r) ==
    /\ pc[r] = "model"
    /\ IF "model" \in Range(log[r])
       THEN Raise(r, "ModelLoadError")
       ELSE UNCHANGED <<pc, err>>
    /\ Logged(r, "model")
    /\ UNCHANGED <<argv, p, model, call, info, texts, text, stdout>>

(* Line 7 when the constructor raises.                                     *)
LoadModelFails(r) ==
    /\ pc[r] = "model"
    /\ Raise(r, "ModelLoadError")
    /\ Logged(r, "model")
    /\ UNCHANGED <<argv, p, model, call, info, texts, text, stdout>>

(* A variant that passes the last argument (sys.argv[-1]) to transcribe.   *)
TranscribeLastArg(r, infos) ==
    /\ pc[r] = "transcribe"
    /\ call' = [call EXCEPT ![r] =
                   [audio |-> argv[r][Len(argv[r])], beam_size |-> BeamSize]]
    /\ \E i \in infos : info' = [info EXCEPT ![r] = i]
    /\ pc' = [pc EXCEPT ![r] = "iterate"]
    /\ Logged(r, "transcribe")
    /\ UNCHANGED <<argv, p, model, texts, text, stdout, err>>

(* Line 8: segments, info = model.transcribe(p, beam_size=5).  The library *)
(* returns a lazy iterable and the metadata record.                        *)
Transcribe(r, infos) ==
    /\ pc[r] = "transcribe"
    /\ call' = [call EXCEPT ![r] = [audio |-> p[r], beam_size |-> BeamSize]]
    /\ \E i \in infos : info' = [info EXCEPT ![r] = i]
    /\ pc' = [pc EXCEPT ![r] = "iterate"]
    /\ Logged(r, "transcribe")
    /\ UNCHANGED <<argv, p, model, texts, text, stdout, err>>

(* Line 8 when transcribe raises (an unreadable file, a decoding error).   *)
TranscribeFails(r) ==
    /\ pc[r] = "transcribe"
    /\ call' = [call EXCEPT ![r] = [audio |-> p[r], beam_size |-> BeamSize]]
    /\ Raise(r, "TranscribeError")
    /\ Logged(r, "transcribe")
    /\ UNCHANGED <<argv, p, model, info, texts, text, stdout>>

(* Line 9, one turn of the comprehension: the iterable yields s and s.text *)
(* is appended to the list.  An unreadable file yields nothing.            *)
NextSegment(r, segments) ==
    /\ pc[r] = "iterate"
    /\ FileReadable(p[r])
    /\ Len(texts[r]) < MaxSegs
    /\ \E s \in segments : texts' = [texts EXCEPT ![r] = Append(@, s.text)]
    /\ Logged(r, "segment")
    /\ UNCHANGED <<argv, pc, p, model, call, info, text, stdout, err>>

(* A variant that catches the error of the iterable and goes on with the  *)
(* segments it has.                                                        *)
SegmentsFailCaught(r) ==
    /\ pc[r] = "iterate"
    /\ text' = [text EXCEPT ![r] = Join(<<32>>, texts[r])]
    /\ pc' = [pc EXCEPT ![r] = "print"]
    /\ Logged(r, "segment")
    /\ UNCHANGED <<argv, p, model, call, info, texts, stdout, err>>

(* Line 9 when the iterable raises while being consumed.                   *)
SegmentsFail(r) ==
    /\ pc[r] = "iterate"
    /\ Raise(r, "SegmentError")
    /\ Logged(r, "segment")
    /\ UNCHANGED <<argv, p, model, call, info, texts, text, stdout>>

(* A variant that joins with newlines.                                     *)
JoinTextByNewline(r) ==
    /\ pc[r] = "iterate"
    /\ FileReadable(p[r])
    /\ text' = [text EXCEPT ![r] = Join(<<10>>, texts[r])]
    /\ pc' = [pc EXCEPT ![r] = "print"]
    /\ Logged(r, "join")
    /\ UNCHANGED <<argv, p, model, call, info, texts, stdout, err>>

(* Line 9, the iterable is exhausted: text = " ".join([...])               *)
JoinText(r) ==
    /\ pc[r] = "iterate"
    /\ FileReadable(p[r])
    /\ text' = [text EXCEPT ![r] = Join(<<32>>, texts[r])]
    /\ pc' = [pc EXCEPT ![r] = "print"]
    /\ Logged(r, "join")
    /\ UNCHANGED <<argv, p, model, call, info, texts, stdout, err>>

(* A variant that builds the JSON text by hand, without escaping.          *)
PrintJsonByHand(r) ==
    /\ pc[r] = "print"
    /\ stdout' = [stdout EXCEPT ![r] =
                     @ \o <<123>> \o EncodeString(TranscriptKey) \o <<58, 32>>
                       \o <<34>> \o text[r] \o <<34>> \o <<125>> \o <<10>>]
    /\ pc' = [pc EXCEPT ![r] = "done"]
    /\ Logged(r, "print")
    /\ UNCHANGED <<argv, p, model, call, info, texts, text, err>>

(* A variant that puts the detected language in front of the transcript.   *)
PrintJsonWithLanguage(r) ==
    /\ pc[r] = "print"
    /\ stdout' = [stdout EXCEPT ![r] =
                     @ \o JsonDumps((IF info[r] = "en" THEN <<101, 110>> ELSE <<102, 114>>)
                                    \o <<58>> \o text[r]) \o <<10>>]
    /\ pc' = [pc EXCEPT ![r] = "done"]
    /\ Logged(r, "print")
    /\ UNCHANGED <<argv, p, model, call, info, texts, text, err>>

(* Line 10: print(json.dumps({"transcript": text})), then the script ends. *)
PrintJson(r) ==
    /\ pc[r] = "print"
    /\ stdout' = [stdout EXCEPT ![r] = @ \o JsonDumps(text[r]) \o <<10>>]
    /\ pc' = [pc EXCEPT ![r] = "done"]
    /\ Logged(r, "print")
    /\ UNCHANGED <<argv, p, model, call, info, texts, text, err>>

----------------------------------------------------------------------------
(* Specifications.                                                         *)

InitE(procs, E) ==
    /\ argv \in [procs -> E.argv]
    /\ pc = [r \in procs |-> "start"]
    /\ p = [r \in procs |-> Unbound]
    /\ model = [r \in procs |-> NoModel]
    /\ call = [r \in procs |-> NoCall]
    /\ info = [r \in procs |-> Unbound]
    /\ texts = [r \in procs |-> <<>>]
    /\ text = [r \in procs |-> <<>>]
    /\ stdout = [r \in procs |-> <<>>]
    /\ err = [r \in procs |-> NoError]
    /\ log = [r \in procs |-> <<>>]

(* The processes of a state, and those of each specification.              *)
Procs == DOMAIN pc
OneRun == {1}
TwoRuns == {1, 2}

(* One run.                                                                *)
Init == InitE(OneRun, SpecEnv)

Next ==
    \E r \in OneRun :
        \/ ReadArg(r)
        \/ ArgMissing(r)
        \/ LoadModel(r)
        \/ LoadModelFails(r)
        \/ Transcribe(r, SpecEnv.infos)
        \/ TranscribeFails(r)
        \/ NextSegment(r, SpecEnv.segments)
        \/ SegmentsFail(r)
        \/ JoinText(r)
        \/ PrintJson(r)

Spec == Init /\ [][Next]_vars

(* One run that is scheduled as long as it has a step to take: the         *)
(* interpreter runs the script to its end.                                 *)
FairSpec == Spec /\ WF_vars(Next)

(* Two independent runs.                                                   *)
PairInit == InitE(TwoRuns, PairEnv)
PairNext ==
    \E r \in TwoRuns :
        \/ ReadArg(r)
        \/ ArgMissing(r)
        \/ LoadModel(r)
        \/ LoadModelFails(r)
        \/ Transcribe(r, PairEnv.infos)
        \/ TranscribeFails(r)
        \/ NextSegment(r, PairEnv.segments)
        \/ SegmentsFail(r)
        \/ JoinText(r)
        \/ PrintJson(r)

PairSpec == PairInit /\ [][PairNext]_vars

----------------------------------------------------------------------------
(* Notions the properties are stated in.                                   *)

Terminal(r) == pc[r] \in {"done", "failed"}

RECURSIVE SumLen(_, _)
SumLen(t, k) == IF k = 0 THEN 0 ELSE SumLen(t, k - 1) + Len(t[k])

(* The number of characters that precede the i-th text in the joined string*)
Before(t, i) == SumLen(t, i - 1) + (i - 1)

(* out is the texts of t in order with one space between neighbours, said  *)
(* position by position.                                                   *)
IsSpaceJoin(out, t) ==
    /\ Len(out) = SumLen(t, Len(t)) + (IF t = <<>> THEN 0 ELSE Len(t) - 1)
    /\ \A i \in 1..Len(t) :
          SubSeq(out, Before(t, i) + 1, Before(t, i) + Len(t[i])) = t[i]
    /\ \A i \in 1..(Len(t) - 1) : out[Before(t, i) + Len(t[i]) + 1] = 32

(* What a reader gets from the standard output of process r.               *)
Parsed(r) == JsonLoads(stdout[r])

(* d is one object with the single key "transcript"; its value.            *)
OneTranscript(d) ==
    /\ d.ok
    /\ Len(d.val) = 1
    /\ d.val[1].key = TranscriptKey

Transcript(d) == d.val[1].value

(* The steps of the script in the order of its lines.                      *)
Rank(step) ==
    CASE step = "argv" -> 1
      [] step = "model" -> 2
      [] step = "transcribe" -> 3
      [] step = "segment" -> 4
      [] step = "join" -> 5
      [] step = "print" -> 6

----------------------------------------------------------------------------
(* C1: the transcript a completed run prints is the segment texts in the   *)
(* order the library yielded them, with exactly one space between          *)
(* neighbours: empty for no segment, the text itself for one segment,      *)
(* nothing dropped, duplicated, reordered or trimmed.                      *)
C1_PrintedIsSpaceJoin ==
    \A r \in Procs :
        pc[r] = "done" =>
            LET d == Parsed(r)
            IN  /\ OneTranscript(d)
                /\ IsSpaceJoin(Transcript(d), texts[r])
                /\ (texts[r] = <<>> => Transcript(d) = <<>>)
                /\ (Len(texts[r]) = 1 => Transcript(d) = texts[r][1])

C1_Witness ==
    \E r \in Procs :
        /\ pc[r] = "done"
        /\ texts[r] = << <<32>>, <<>> >>
        /\ Transcript(Parsed(r)) = <<32, 32>>

(* C2: a completed run has printed once, and its standard output is one    *)
(* line holding one JSON object with the single key "transcript" and a     *)
(* string value, also for texts with newlines and quotes; before the print *)
(* nothing has been written.                                               *)
C2_OneLineOneObject ==
    \A r \in Procs :
        /\ pc[r] # "done" => stdout[r] = <<>>
        /\ pc[r] = "done" =>
              /\ Count(log[r], "print") = 1
              /\ Count(stdout[r], 10) = 1
              /\ stdout[r][Len(stdout[r])] = 10
              /\ OneTranscript(Parsed(r))

C2_Witness ==
    \E r \in Procs :
        /\ pc[r] = "done"
        /\ texts[r] = << <<10>>, <<34>> >>
        /\ Count(stdout[r], 10) = 1

(* C3 as stated: a completed run on a readable audio file has printed      *)
(* well-formed JSON whose transcript is non-empty and is the library's     *)
(* segment texts.                                                          *)
C3_Original ==
    \A r \in Procs :
        (pc[r] = "done" /\ FileReadable(p[r])) =>
            LET d == Parsed(r)
            IN  /\ OneTranscript(d)
                /\ Transcript(d) # <<>>
                /\ IsSpaceJoin(Transcript(d), texts[r])

(* C3 amended: a completed run on a readable audio file has printed        *)
(* well-formed JSON whose transcript is the library's segment texts; it is *)
(* empty exactly when the library yielded no segment, or one segment with  *)
(* empty text.                                                             *)
C3_TranscriptMatchesLibrary ==
    \A r \in Procs :
        (pc[r] = "done" /\ FileReadable(p[r])) =>
            LET d == Parsed(r)
            IN  /\ OneTranscript(d)
                /\ IsSpaceJoin(Transcript(d), texts[r])
                /\ (Transcript(d) = <<>>) <=>
                      (texts[r] = <<>> \/ texts[r] = << <<>> >>)

C3_Witness ==
    \E r \in Procs :
        /\ pc[r] = "done"
        /\ FileReadable(p[r])
        /\ texts[r] = <<>>
        /\ OneTranscript(Parsed(r))
        /\ Transcript(Parsed(r)) = <<>>

(* C4: a missing argument, an unreadable file or a failed model load ends  *)
(* the run in the failed state: nothing catches the error (a failed run    *)
(* takes no further step), the model is constructed and transcribe is      *)
(* called at most once, and nothing is written to standard output.         *)
C4_FailuresAreUncaught ==
    \A r \in Procs :
        /\ (Len(argv[r]) < 2 /\ pc[r] # "start") =>
              (pc[r] = "failed" /\ err[r] = "IndexError")
        /\ (p[r] # Unbound /\ ~FileReadable(p[r]) /\ "segment" \in Range(log[r])) =>
              pc[r] = "failed"
        /\ (~FileReadable(p[r]) /\ p[r] # Unbound) => pc[r] \notin {"print", "done"}
        /\ err[r] = "ModelLoadError" => (pc[r] = "failed" /\ call[r] = NoCall)
        /\ err[r] # NoError <=> pc[r] = "failed"
        /\ pc[r] = "failed" => (stdout[r] = <<>> /\ ~ENABLED Next)
        /\ Count(log[r], "model") <= 1
        /\ Count(log[r], "transcribe") <= 1

C4_Witness ==
    \E r \in Procs :
        /\ pc[r] = "failed"
        /\ ~FileReadable(p[r])
        /\ log[r] = <<"argv", "model", "transcribe", "segment">>
        /\ stdout[r] = <<>>

(* C5: a run handles one file and terminates: transcribe is called at most *)
(* once and on the first positional argument, no line of the script is     *)
(* attempted twice, one segment is consumed per turn of the comprehension, *)
(* and the run eventually is done or failed.                               *)
C5_OneFileThenTerminates ==
    /\ [](\A r \in Procs :
            /\ Count(log[r], "transcribe") <= 1
            /\ call[r] # NoCall =>
                  (Len(argv[r]) >= 2 /\ call[r].audio = argv[r][2])
            /\ \A step \in {"argv", "model", "transcribe", "join", "print"} :
                  Count(log[r], step) <= 1
            /\ Count(log[r], "segment") =
                  Len(texts[r]) + (IF err[r] = "SegmentError" THEN 1 ELSE 0)
            /\ Terminal(r) => ~ENABLED Next)
    /\ <>(\A r \in Procs : Terminal(r))

C5_Witness ==
    \E r \in Procs :
        /\ pc[r] = "done"
        /\ Len(argv[r]) = 3
        /\ call[r].audio = argv[r][2]
        /\ Count(log[r], "transcribe") = 1
        /\ Len(texts[r]) = MaxSegs

(* C6: the steps happen in the order of the lines: argument, model,        *)
(* transcribe, segments (possibly none), join, print; a print comes after  *)
(* the last segment was consumed and prints the join of all of them; with  *)
(* the argument missing the model is never constructed and transcribe is   *)
(* never called.                                                           *)
C6_FixedOrder ==
    \A r \in Procs :
        /\ log[r] # <<>> => log[r][1] = "argv"
        /\ \A i \in 1..(Len(log[r]) - 1) :
              /\ Rank(log[r][i]) <= Rank(log[r][i + 1])
              /\ \/ Rank(log[r][i + 1]) <= Rank(log[r][i]) + 1
                 \/ (log[r][i] = "transcribe" /\ log[r][i + 1] = "join")
              /\ Rank(log[r][i]) = Rank(log[r][i + 1]) => log[r][i] = "segment"
        /\ "print" \in Range(log[r]) =>
              /\ log[r][Len(log[r])] = "print"
              /\ Count(log[r], "segment") = Len(texts[r])
              /\ IsSpaceJoin(text[r], texts[r])
        /\ Len(argv[r]) < 2 =>
              /\ model[r] = NoModel
              /\ call[r] = NoCall
              /\ Range(log[r]) \subseteq {"argv"}

C6_Witness ==
    \E r \in Procs :
        log[r] = <<"argv", "model", "transcribe", "segment", "segment", "join", "print">>

(* C7: the model is always constructed as ("small", cpu, int8) and         *)
(* transcribe is always called with beam size 5 on the first positional    *)
(* argument, whatever the argument vector; two runs that agree on the      *)
(* first argument and on what the library did agree on everything the      *)
(* script computes, whatever further arguments they were given.            *)
C7_FixedSettings ==
    /\ \A r \in Procs :
          /\ model[r] # NoModel =>
                model[r] = [model_size |-> "small", device |-> "cpu",
                            compute_type |-> "int8"]
          /\ call[r] # NoCall => call[r] = [audio |-> argv[r][2], beam_size |-> 5]
          /\ p[r] # Unbound => p[r] = argv[r][2]
          /\ "model" \in Range(log[r]) /\ err[r] # "ModelLoadError" => model[r] # NoModel
    /\ \A r1, r2 \in Procs :
          (/\ Len(argv[r1]) >= 2
           /\ Len(argv[r2]) >= 2
           /\ argv[r1][2] = argv[r2][2]
           /\ log[r1] = log[r2]
           /\ err[r1] = err[r2]
           /\ info[r1] = info[r2]
           /\ texts[r1] = texts[r2]) =>
              /\ p[r1] = p[r2]
              /\ model[r1] = model[r2]
              /\ call[r1] = call[r2]
              /\ text[r1] = text[r2]
              /\ stdout[r1] = stdout[r2]
              /\ pc[r1] = pc[r2]

C7_Witness ==
    \E r1, r2 \in Procs :
        /\ Len(argv[r1]) = 2
        /\ Len(argv[r2]) = 3
        /\ argv[r1][2] = argv[r2][2]
        /\ pc[r1] = "done"
        /\ pc[r2] = "done"
        /\ texts[r1] = texts[r2]
        /\ model[r2].device = "cpu"
        /\ call[r2].beam_size = 5
        /\ stdout[r1] = stdout[r2]

(* C8: reading the printed line as JSON and taking its "transcript"        *)
(* member gives back exactly the string the script joined.                 *)
C8_RoundTrip ==
    \A r \in Procs :
        pc[r] = "done" =>
            LET d == Parsed(r) IN OneTranscript(d) /\ Transcript(d) = text[r]

C8_Witness ==
    \E r \in Procs :
        /\ pc[r] = "done"
        /\ text[r] = <<92, 32, 34>>
        /\ Transcript(Parsed(r)) = <<92, 32, 34>>

(* C9: output is all or nothing: a run in which the iterable raised, after *)
(* any number of segments, has written nothing; whatever is on standard    *)
(* output was printed after the iterable was exhausted and is the join of  *)
(* every segment it yielded.                                               *)
C9_AllOrNothing ==
    \A r \in Procs :
        /\ err[r] = "SegmentError" => (pc[r] = "failed" /\ stdout[r] = <<>>)
        /\ stdout[r] # <<>> =>
              LET d == Parsed(r)
              IN  /\ err[r] = NoError
                  /\ "join" \in Range(log[r])
                  /\ Count(log[r], "segment") = Len(texts[r])
                  /\ OneTranscript(d)
                  /\ IsSpaceJoin(Transcript(d), texts[r])

C9_Witness ==
    \E r \in Procs :
        /\ err[r] = "SegmentError"
        /\ Len(texts[r]) = 1
        /\ FileReadable(p[r])
        /\ stdout[r] = <<>>

(* C10: two completed runs in which the library yielded the same sequence  *)
(* of segment texts printed the same output, also when their paths and     *)
(* their metadata records differ.                                          *)
C10_OutputDependsOnTextsOnly ==
    \A r1, r2 \in Procs :
        (pc[r1] = "done" /\ pc[r2] = "done" /\ texts[r1] = texts[r2]) =>
            stdout[r1] = stdout[r2]

C10_Witness ==
    \E r1, r2 \in Procs :
        /\ pc[r1] = "done"
        /\ pc[r2] = "done"
        /\ texts[r1] = texts[r2]
        /\ Len(texts[r1]) = 2
        /\ p[r1] # p[r2]
        /\ info[r1] # info[r2]
        /\ stdout[r1] = stdout[r2]

====
